---- MODULE Spec2Model ----
(***************************************************************************)
(* CommuGraph: the temporal graph builder (GraphBuilder) and its           *)
(* step-indexed views, modelled from backend/app/services/graph_builder.py *)
(***************************************************************************)
EXTENDS Integers, Sequences, FiniteSets, TLC

\* ------------------------------------------------------------------ bounds
MaxLen == 2      \* longest message list handed to build_graph
MaxStep == 1     \* largest step_index of a message
MaxLogLen == 3   \* most entries of a parsed log file
MaxShortLog == 2 \* most entries of a log read by concurrent requests
MaxTinyLog == 1  \* most entries of a log uploaded next to other requests
MaxBuilders == 1 \* most GraphBuilder objects alive at once
MaxFileLines == 2 \* most lines of a log file handed to the parser
MaxNow == 26     \* the clock stops after this many hours
MaxInferStep == 1000 \* largest step_index a timestamp is inferred for

\* ------------------------------------------------------------------ values
Agents == {"A", "B"}

\* Optional[str] receiver: None is a value that is no agent identifier.
NoReceiver == "<None>"

\* Optional[int], Optional[DiGraph]: the empty set is None, {x} is the value x.
NoneValue == {}
Some(x) == {x}
TheValue(opt) == CHOOSE x \in opt : TRUE

Steps == 0..MaxStep
\* AutoGenParser._extract_timestamp for an entry without a timestamp field:
\* base_time with microsecond = step_index * 1000. Timestamps are counted in
\* microseconds after base_time.
InferredTimestamp(step_index) == step_index * 1000

Timestamps == {InferredTimestamp(s) : s \in Steps}

\* Message: the fields that decide nodes, edges, counters and timestamps.
\* message_type and content only reach an interaction's intent label and
\* content preview, which no operation of the builder reads back.
Message == [step_index : Steps, timestamp : Timestamps,
            sender : Agents, receiver : Agents \cup {NoReceiver}]

MessageLists == UNION {[1..n -> Message] : n \in 0..MaxLen}

\* The messages whose timestamp follows their step_index, as the parser makes
\* them for a log without timestamps, and the lists of them in any order.
SteppedMessage == {m \in Message : m.timestamp = InferredTimestamp(m.step_index)}
SteppedLists == UNION {[1..n -> SteppedMessage] : n \in 0..MaxLen}

\* AutoGenParser.parse for a log of n entries without timestamp fields: entry
\* number idx becomes the message of step_index idx, its timestamp inferred
\* from the step; a log without entries raises and gives no list.
LogEntries(n) == [1..n -> [sender : Agents, receiver : Agents \cup {NoReceiver}]]
ParsedLog(entries) ==
    [i \in 1..Len(entries) |->
        [step_index |-> i - 1, timestamp |-> InferredTimestamp(i - 1),
         sender |-> entries[i].sender, receiver |-> entries[i].receiver]]
ParsedLogs == {ParsedLog(entries) : entries \in UNION {LogEntries(n) : n \in 1..MaxLogLen}}

\* max_step arguments: from below every step_index up to the largest one.
StepBounds == (-1)..MaxStep

\* Mutant: every receiver value counts as present, None too.
HasReceiverAlways(message) == TRUE

\* Python truthiness of `message.receiver`.
HasReceiver(message) == message.receiver # NoReceiver

\* ------------------------------------------------------------------ build

\* sorted(messages, key=lambda m: m.step_index): a stable sort.
\* Mutant: a message goes before the messages of its own step_index, which
\* sorts by step_index and turns the order of ties around.
RECURSIVE InsertBeforeEqual(_, _)
InsertBeforeEqual(s, m) ==
    IF s = <<>> THEN <<m>>
    ELSE IF Head(s).step_index < m.step_index
         THEN <<Head(s)>> \o InsertBeforeEqual(Tail(s), m)
         ELSE <<m>> \o s

RECURSIVE InsertStable(_, _)
InsertStable(s, m) ==
    IF s = <<>> THEN <<m>>
    ELSE IF Head(s).step_index <= m.step_index
         THEN <<Head(s)>> \o InsertStable(Tail(s), m)
         ELSE <<m>> \o s

RECURSIVE SortFrom(_, _)
SortFrom(acc, rest) ==
    IF rest = <<>> THEN acc
    ELSE SortFrom(InsertStable(acc, Head(rest)), Tail(rest))

\* Mutant: the messages are taken in the caller's order, unsorted.
SortedByStepIndexAsGiven(msgs) == msgs

SortedByStepIndex(msgs) == SortFrom(<<>>, msgs)

Max(a, b) == IF a >= b THEN a ELSE b

\* State of one build_graph run: the DiGraph under construction (nodes, edges)
\* and the local node_metadata dictionary.
EmptyBuild == [nodes |-> {}, edges |-> <<>>, node_metadata |-> <<>>]

\* GraphBuilder._add_or_update_node
AddOrUpdateNode(b, node_id, message) ==
    LET created ==
            IF node_id \in DOMAIN b.node_metadata THEN b
            ELSE [b EXCEPT
                    !.node_metadata = (node_id :>
                        [id |-> node_id, label |-> node_id, message_count |-> 0,
                         first_appearance |-> message.timestamp,
                         last_activity |-> message.timestamp]) @@ @,
                    !.nodes = @ \cup {node_id}]
    IN  IF message.sender = node_id
        THEN [created EXCEPT
                !.node_metadata[node_id].message_count = @ + 1,
                !.node_metadata[node_id].last_activity = Max(@, message.timestamp)]
        ELSE created

\* Interaction(step_index, timestamp, message_id=step_index)
NewInteraction(message) ==
    [step_index |-> message.step_index, timestamp |-> message.timestamp,
     message_id |-> message.step_index]

\* GraphBuilder._add_interaction
AddInteraction(b, message) ==
    LET sender == message.sender
        receiver == message.receiver
        e == <<sender, receiver>>
    IN  IF ~HasReceiver(message) THEN b
        ELSE IF e \in DOMAIN b.edges
        THEN [b EXCEPT !.edges[e].interactions = Append(@, NewInteraction(message)),
                       !.edges[e].weight = @ + 1]
        ELSE [b EXCEPT !.edges = (e :> [interactions |-> <<NewInteraction(message)>>,
                                        weight |-> 1,
                                        source |-> sender,
                                        target |-> receiver]) @@ @]

\* Mutant: the receiver is upserted and linked without the `if message.receiver`
\* test, so that a broadcast makes a node and an edge for None.
FoldMessageUnguarded(b, message) ==
    LET b1 == AddOrUpdateNode(b, message.sender, message)
        b2 == AddOrUpdateNode(b1, message.receiver, message)
        e == <<message.sender, message.receiver>>
    IN  IF e \in DOMAIN b2.edges
        THEN [b2 EXCEPT !.edges[e].interactions = Append(@, NewInteraction(message)),
                        !.edges[e].weight = @ + 1]
        ELSE [b2 EXCEPT !.edges = (e :> [interactions |-> <<NewInteraction(message)>>,
                                         weight |-> 1,
                                         source |-> message.sender,
                                         target |-> message.receiver]) @@ @]

\* One iteration of the loop `for message in self.messages`.
FoldMessage(b, message) ==
    LET b1 == AddOrUpdateNode(b, message.sender, message)
    IN  IF HasReceiver(message)
        THEN AddInteraction(AddOrUpdateNode(b1, message.receiver, message), message)
        ELSE b1

RECURSIVE FoldMessages(_, _)
FoldMessages(b, msgs) ==
    IF msgs = <<>> THEN b
    ELSE FoldMessages(FoldMessage(b, Head(msgs)), Tail(msgs))

\* The DiGraph build_graph leaves in self.graph for the sorted list `sorted`:
\* the loop over the messages, then node_metadata attached to the nodes.
BuiltGraph(sorted) ==
    LET b == FoldMessages(EmptyBuild, sorted)
    IN  [nodes |-> b.nodes,
         node_attr |-> [n \in b.nodes |-> b.node_metadata[n]],
         edges |-> b.edges]

\* ------------------------------------------------------------------ views

\* Mutant: no copy is taken, the view is the base graph object itself.
GraphCopyAlias(heap, ref) ==
    [heap |-> heap, ref |-> ref]

\* nx.DiGraph.copy(): a new graph object whose node and edge attribute
\* dictionaries are copies. `heap` holds the graph objects of one call, a
\* reference is an index into it.
GraphCopy(heap, ref) ==
    [heap |-> Append(heap, heap[ref]), ref |-> Len(heap) + 1]

\* Mutant: `==` for `<=`, only the interactions of step max_step are kept.
KeptInteractionsAtStep(interactions, max_step) ==
    LET Keep(i) == i.step_index = max_step
    IN  SelectSeq(interactions, Keep)

\* The interactions of a list with step_index <= max_step, in order.
KeptInteractions(interactions, max_step) ==
    LET Keep(i) == i.step_index <= max_step
    IN  SelectSeq(interactions, Keep)

\* Mutant: the kept list is stored and the weight is left as copied.
FilterEdgesStaleWeight(g, max_step) ==
    [g EXCEPT !.edges =
        [e \in DOMAIN g.edges |->
            LET interactions == KeptInteractions(g.edges[e].interactions, max_step)
            IN  IF interactions # <<>>
                THEN [g.edges[e] EXCEPT !.interactions = interactions]
                ELSE g.edges[e]]]

\* The loop over filtered.edges(data=True): an edge that keeps interactions
\* gets the kept list and its length as weight.
FilterEdges(g, max_step) ==
    [g EXCEPT !.edges =
        [e \in DOMAIN g.edges |->
            LET interactions == KeptInteractions(g.edges[e].interactions, max_step)
            IN  IF interactions # <<>>
                THEN [g.edges[e] EXCEPT !.interactions = interactions,
                                        !.weight = Len(interactions)]
                ELSE g.edges[e]]]

\* Mutant: no edge is collected for removal.
EdgesToRemoveNone(g, max_step) == {}

\* edges_to_remove of that loop.
EdgesToRemove(g, max_step) ==
    {e \in DOMAIN g.edges :
        KeptInteractions(g.edges[e].interactions, max_step) = <<>>}

\* DiGraph.remove_edge for each edge of `es`.
RemoveEdges(g, es) ==
    [g EXCEPT !.edges = [e \in (DOMAIN g.edges) \ es |-> g.edges[e]]]

\* Mutant: the isolated nodes are not looked for.
IsolatesNone(g) == {}

\* nx.isolates: the nodes of degree zero (a self-loop gives degree two).
Isolates(g) ==
    {n \in g.nodes : \A e \in DOMAIN g.edges : e[1] # n /\ e[2] # n}

\* DiGraph.remove_nodes_from: the nodes go, and every edge at one of them.
RemoveNodesFrom(g, ns) ==
    LET left == g.nodes \ ns
    IN  [nodes |-> left,
         node_attr |-> [n \in left |-> g.node_attr[n]],
         edges |-> [e \in {x \in DOMAIN g.edges : x[1] \in left /\ x[2] \in left}
                        |-> g.edges[e]]]

\* GraphBuilder.filter_graph_by_step past its not-built check, on the graph
\* object self.graph. Returns the view and what self.graph holds afterwards.
FilterGraphByStep(g, max_step) ==
    LET c == GraphCopy(<<g>>, 1)
        filtered == c.heap[c.ref]
        loop == FilterEdges(filtered, max_step)
        removed == RemoveEdges(loop, EdgesToRemove(filtered, max_step))
        final == RemoveNodesFrom(removed, Isolates(removed))
        heap == [c.heap EXCEPT ![c.ref] = final]
    IN  [self_graph |-> heap[1], filtered |-> heap[c.ref]]

\* Python truthiness of an Optional[int] max_step: None and 0 are false.
Truthy(max_step) == max_step # NoneValue /\ TheValue(max_step) # 0

\* NodeData(**node_data_dict): the graph's node attributes hold no
\* messages_sent and no messages_received, which take their default 0.
NodeData(attr) ==
    [id |-> attr.id, label |-> attr.label, message_count |-> attr.message_count,
     messages_sent |-> 0, messages_received |-> 0,
     first_appearance |-> attr.first_appearance,
     last_activity |-> attr.last_activity]

EdgeData(data) ==
    [source |-> data.source, target |-> data.target,
     interactions |-> data.interactions, weight |-> data.weight]

\* Mutant: the number of messages stands for the largest step, as if the
\* steps were 0, 1, ... without gaps or repeats.
MaxStepIndexAsCount(msgs) == Len(msgs) - 1

\* max(m.step_index for m in self.messages)
RECURSIVE MaxStepIndex(_)
MaxStepIndex(msgs) ==
    IF Len(msgs) = 1 THEN Head(msgs).step_index
    ELSE Max(Head(msgs).step_index, MaxStepIndex(Tail(msgs)))

\* GraphBuilder.to_graph_snapshot past its not-built check. The nodes and
\* edges lists hold one entry per node and per edge of graph_to_use; they
\* are kept as sets, their lengths as the sets' sizes.
ToGraphSnapshot(g, msgs, max_step) ==
    LET f == IF Truthy(max_step)
             THEN FilterGraphByStep(g, TheValue(max_step))
             ELSE [self_graph |-> g, filtered |-> g]
        graph_to_use == f.filtered
        nodes == {NodeData(graph_to_use.node_attr[n]) : n \in graph_to_use.nodes}
        edges == {EdgeData(graph_to_use.edges[e]) : e \in DOMAIN graph_to_use.edges}
        total_steps == IF msgs # <<>> THEN MaxStepIndex(msgs) ELSE 0
    IN  [self_graph |-> f.self_graph,
         snapshot |-> [nodes |-> nodes,
                       edges |-> edges,
                       current_step |-> max_step,
                       total_steps |-> total_steps,
                       metadata |-> [node_count |-> Cardinality(nodes),
                                     edge_count |-> Cardinality(edges),
                                     message_count |-> Len(msgs)]]]

\* A quotient num/den, den > 0.
Ratio(num, den) == [num |-> num, den |-> den]

\* nx.density of a DiGraph: 0 when m = 0 or n <= 1, else m / (n * (n - 1)).
Density(g) ==
    LET n == Cardinality(g.nodes)
        m == Cardinality(DOMAIN g.edges)
    IN  IF m = 0 \/ n <= 1 THEN Ratio(0, 1) ELSE Ratio(m, n * (n - 1))

InDegree(g, n) == Cardinality({e \in DOMAIN g.edges : e[2] = n})
OutDegree(g, n) == Cardinality({e \in DOMAIN g.edges : e[1] = n})

TotalDegree(g, n) == InDegree(g, n) + OutDegree(g, n)

\* nx.degree_centrality and its in/out variants, `degree` the degree of each
\* node: 1 for every node of a graph of at most one node, else the degree
\* over n - 1.
Centrality(g, degree) ==
    LET n == Cardinality(g.nodes)
    IN  [v \in g.nodes |->
            IF n <= 1 THEN Ratio(1, 1) ELSE Ratio(degree[v], n - 1)]

\* GraphBuilder.get_graph_metrics past its not-built check: a dictionary, the
\* centrality keys present when the graph has a node.
GetGraphMetrics(g) ==
    LET metrics == [node_count |-> Cardinality(g.nodes),
                    edge_count |-> Cardinality(DOMAIN g.edges),
                    density |-> Density(g)]
    IN  IF Cardinality(g.nodes) > 0
        THEN [degree_centrality |->
                  Centrality(g, [v \in g.nodes |-> TotalDegree(g, v)]),
              in_degree_centrality |->
                  Centrality(g, [v \in g.nodes |-> InDegree(g, v)]),
              out_degree_centrality |->
                  Centrality(g, [v \in g.nodes |-> OutDegree(g, v)])] @@ metrics
        ELSE metrics

\* ------------------------------------------------------------------ state
VARIABLES
    graph,      \* GraphBuilder.graph: Optional[nx.DiGraph]
    messages,   \* GraphBuilder.messages
    result,     \* what the last call on the builder returned or raised
    first_view, \* history: the first view filter_graph_by_step returned, and
                \* whether the last call repeated that call's max_step
    sessions,   \* SessionManager._sessions: session id -> session dictionary
    now,        \* datetime.now(), in hours
    threads     \* the requests in progress: thread -> its frame

\* What the calls on one GraphBuilder leave alone.
store == <<sessions, now, threads>>

vars == <<graph, messages, result, first_view, sessions, now, threads>>

\* Mutant: a graph without edges counts as not built.
NotBuiltWithoutEdges(g) == g = NoneValue \/ DOMAIN TheValue(g).edges = {}

\* `not self.graph`: None, or a DiGraph of length (number of nodes) zero.
NotBuilt(g) == g = NoneValue \/ TheValue(g).nodes = {}

NotBuiltError == "ValueError: No graph built yet. Call build_graph() first."
EmptyListError == "ValueError: Cannot build graph from empty message list"

Init ==
    /\ graph = NoneValue
    /\ messages = <<>>
    /\ result = [op |-> "init"]
    /\ first_view = NoneValue
    /\ sessions = <<>>
    /\ now = 0
    /\ threads = <<>>

\* The history after a call: the first view is kept. `again` tells whether
\* this call is a later filter_graph_by_step with the first view's max_step.
Recorded(fv, again) ==
    IF fv = NoneValue THEN fv
    ELSE Some([TheValue(fv) EXCEPT !.repeated = again])

\* Mutant: the empty-list test comes after the assignments to self.messages
\* and self.graph.
BuildGraphCommitFirst(msgs) ==
    /\ messages' = SortedByStepIndex(msgs)
    /\ graph' = Some(BuiltGraph(SortedByStepIndex(msgs)))
    /\ result' = [op |-> "build_graph", input |-> msgs,
                  raised |-> IF msgs = <<>> THEN EmptyListError ELSE "no"]

\* GraphBuilder.build_graph(msgs)
BuildGraph(msgs) ==
    IF msgs = <<>>
    THEN /\ result' = [op |-> "build_graph", raised |-> EmptyListError,
                       input |-> msgs]
         /\ UNCHANGED <<graph, messages>>
    ELSE /\ messages' = SortedByStepIndex(msgs)
         /\ graph' = Some(BuiltGraph(SortedByStepIndex(msgs)))
         /\ result' = [op |-> "build_graph", raised |-> "no", input |-> msgs]

\* The lists build_graph is called with: upload_log_file makes a new
\* GraphBuilder and builds it once from the parsed messages; on a built
\* builder only the call with the empty list is followed here.
BuildInputs == IF graph = NoneValue THEN SteppedLists ELSE {<<>>}

Build ==
    /\ \E msgs \in BuildInputs : BuildGraph(msgs)
    /\ first_view' = Recorded(first_view, FALSE)
    /\ UNCHANGED store

\* GraphBuilder.filter_graph_by_step(max_step)
FilterCall ==
    \E max_step \in StepBounds :
        /\ IF NotBuilt(graph)
           THEN /\ result' = [op |-> "filter_graph_by_step", max_step |-> max_step,
                              raised |-> NotBuiltError]
                /\ UNCHANGED <<graph, messages, first_view>>
           ELSE LET r == FilterGraphByStep(TheValue(graph), max_step)
                IN  /\ graph' = Some(r.self_graph)
                    /\ result' = [op |-> "filter_graph_by_step", max_step |-> max_step,
                                  raised |-> "no", value |-> r.filtered]
                    /\ first_view' =
                           IF first_view = NoneValue
                           THEN Some([max_step |-> max_step, value |-> r.filtered,
                                      repeated |-> FALSE])
                           ELSE Recorded(first_view,
                                         TheValue(first_view).max_step = max_step)
                    /\ UNCHANGED messages
        /\ UNCHANGED store

\* GraphBuilder.to_graph_snapshot(max_step), max_step None or an integer
SnapshotCall ==
    \E max_step \in {NoneValue} \cup {Some(k) : k \in StepBounds} :
        /\ IF NotBuilt(graph)
           THEN /\ result' = [op |-> "to_graph_snapshot", max_step |-> max_step,
                              raised |-> NotBuiltError]
                /\ UNCHANGED <<graph, messages, first_view>>
           ELSE LET r == ToGraphSnapshot(TheValue(graph), messages, max_step)
                IN  /\ graph' = Some(r.self_graph)
                    /\ result' = [op |-> "to_graph_snapshot", max_step |-> max_step,
                                  raised |-> "no", value |-> r.snapshot]
                    /\ first_view' = Recorded(first_view, FALSE)
                    /\ UNCHANGED messages
        /\ UNCHANGED store

\* GraphBuilder.get_graph_metrics()
MetricsCall ==
    /\ IF NotBuilt(graph)
       THEN result' = [op |-> "get_graph_metrics", raised |-> NotBuiltError]
       ELSE result' = [op |-> "get_graph_metrics", raised |-> "no",
                       value |-> GetGraphMetrics(TheValue(graph))]
    /\ first_view' = Recorded(first_view, FALSE)
    /\ UNCHANGED <<graph, messages>>
    /\ UNCHANGED store

Next ==
    \/ Build
    \/ FilterCall
    \/ SnapshotCall
    \/ MetricsCall

Spec == Init /\ [][Next]_vars

\* ------------------------------------------------- upload, then metrics
\* upload_log_file: parse the log, build the graph of a new builder from it.
BuildLog ==
    /\ graph = NoneValue
    /\ \E msgs \in ParsedLogs : BuildGraph(msgs)
    /\ first_view' = Recorded(first_view, FALSE)
    /\ UNCHANGED store

NextMetrics ==
    \/ BuildLog
    \/ MetricsCall

SpecMetrics == Init /\ [][NextMetrics]_vars

\* ------------------------------------------------------------------ claims
Built == graph # NoneValue
Base == TheValue(graph)
FilterReturned == result.op = "filter_graph_by_step" /\ result.raised = "no"
SnapshotReturned == result.op = "to_graph_snapshot" /\ result.raised = "no"
BuildReturned == result.op = "build_graph" /\ result.raised = "no"

IsPrefix(s, t) == Len(s) <= Len(t) /\ \A i \in 1..Len(s) : s[i] = t[i]

\* C1: every edge of the view filter_graph_by_step(K) returns is an edge of
\* the base graph and carries a prefix of the base edge's interactions: the
\* kept ones all have step_index <= K, the ones left out all have
\* step_index > K.
C1_ViewKeepsPrefix ==
    FilterReturned =>
        \A e \in DOMAIN result.value.edges :
            /\ e \in DOMAIN Base.edges
            /\ LET kept == result.value.edges[e].interactions
                   all == Base.edges[e].interactions
               IN  /\ IsPrefix(kept, all)
                   /\ \A i \in 1..Len(kept) : kept[i].step_index <= result.max_step
                   /\ \A i \in (Len(kept) + 1)..Len(all) :
                          all[i].step_index > result.max_step

\* A view with an edge that keeps some, not all, of the base edge's
\* interactions.
C1_Witness ==
    /\ FilterReturned
    /\ \E e \in DOMAIN result.value.edges :
          /\ Len(result.value.edges[e].interactions) >= 1
          /\ Len(result.value.edges[e].interactions)
                < Len(Base.edges[e].interactions)

\* The nodes, edges and per-edge interactions of a graph as a snapshot
\* lists them.
SnapshotNodeIds(snapshot) == {n.id : n \in snapshot.nodes}
SnapshotEdges(snapshot) ==
    {<<e.source, e.target, e.interactions>> : e \in snapshot.edges}
GraphEdges(g) ==
    {<<e[1], e[2], g.edges[e].interactions>> : e \in DOMAIN g.edges}

\* C2: to_graph_snapshot(maxStep) with an integer maxStep >= 0, 0 included,
\* returns the nodes, edges and interactions of filter_graph_by_step(maxStep)
\* and current_step = maxStep; with maxStep omitted it returns the full graph
\* and current_step = None.
C2_SnapshotIsFilteredView ==
    SnapshotReturned =>
        IF result.max_step = NoneValue
        THEN /\ result.value.current_step = NoneValue
             /\ SnapshotNodeIds(result.value) = Base.nodes
             /\ SnapshotEdges(result.value) = GraphEdges(Base)
        ELSE TheValue(result.max_step) >= 0 =>
                LET view == FilterGraphByStep(Base, TheValue(result.max_step)).filtered
                IN  /\ result.value.current_step = result.max_step
                    /\ SnapshotNodeIds(result.value) = view.nodes
                    /\ SnapshotEdges(result.value) = GraphEdges(view)

\* C3: an edge is in the view filter_graph_by_step(K) returns exactly when it
\* is a base edge with an interaction of step_index <= K.
C3_EdgePresentIffReached ==
    FilterReturned =>
        \A u \in Agents, v \in Agents :
            <<u, v>> \in DOMAIN result.value.edges
              <=> /\ <<u, v>> \in DOMAIN Base.edges
                  /\ \E i \in 1..Len(Base.edges[<<u, v>>].interactions) :
                        Base.edges[<<u, v>>].interactions[i].step_index
                            <= result.max_step

\* A view that holds one base edge and lacks another, whose first interaction
\* comes after K.
C3_Witness ==
    /\ FilterReturned
    /\ DOMAIN result.value.edges # {}
    /\ \E e \in DOMAIN Base.edges :
          /\ e \notin DOMAIN result.value.edges
          /\ Base.edges[e].interactions[1].step_index > result.max_step

\* C4: a node is in the view filter_graph_by_step returns exactly when it is
\* the source or the target of an edge of the view.
C4_ViewIsInduced ==
    FilterReturned =>
        /\ \A n \in result.value.nodes :
              \E e \in DOMAIN result.value.edges : e[1] = n \/ e[2] = n
        /\ \A e \in DOMAIN result.value.edges :
              e[1] \in result.value.nodes /\ e[2] \in result.value.nodes
        /\ DOMAIN result.value.node_attr = result.value.nodes

\* A view that lost a node of the base graph and kept a node whose only edge
\* is a self-loop.
C4_Witness ==
    /\ FilterReturned
    /\ result.value.nodes # Base.nodes
    /\ \E n \in result.value.nodes :
          \A e \in DOMAIN result.value.edges :
              (e[1] = n \/ e[2] = n) => e = <<n, n>>

\* C5: filter_graph_by_step(total_steps) has the node set, the edge set and
\* the per-edge interactions of the full graph.
C5_FullViewEquivalence ==
    (FilterReturned /\ result.max_step = MaxStepIndex(messages)) =>
        /\ result.value.nodes = Base.nodes
        /\ GraphEdges(result.value) = GraphEdges(Base)

\* C6: weight = number of interactions, on every edge of the base graph, of
\* a view and of a snapshot.
C6_WeightIsInteractionCount ==
    /\ Built =>
          \A e \in DOMAIN Base.edges :
              Base.edges[e].weight = Len(Base.edges[e].interactions)
    /\ FilterReturned =>
          \A e \in DOMAIN result.value.edges :
              result.value.edges[e].weight = Len(result.value.edges[e].interactions)
    /\ SnapshotReturned =>
          \A e \in result.value.edges : e.weight = Len(e.interactions)

\* A view with an edge that kept some interactions and whose weight is below
\* the base edge's.
C6_Witness ==
    /\ FilterReturned
    /\ \E e \in DOMAIN result.value.edges :
          /\ result.value.edges[e].weight >= 1
          /\ result.value.edges[e].weight < Base.edges[e].weight

\* The views V1 of a smaller and V2 of a larger bound: nodes and edges of V1
\* are among those of V2, with at most as many interactions.
Within(V1, V2) ==
    /\ V1.nodes \subseteq V2.nodes
    /\ DOMAIN V1.edges \subseteq DOMAIN V2.edges
    /\ \A e \in DOMAIN V1.edges :
          Len(V1.edges[e].interactions) <= Len(V2.edges[e].interactions)

\* C7: of two views filter_graph_by_step returned for K1 < K2, the view at K1
\* lies within the view at K2.
C7_Monotone ==
    (FilterReturned /\ first_view # NoneValue) =>
        LET first == TheValue(first_view)
        IN  /\ first.max_step < result.max_step => Within(first.value, result.value)
            /\ result.max_step < first.max_step => Within(result.value, first.value)

\* Two views for K1 < K2, the first with a node, the second with more nodes
\* and more edges.
C7_Witness ==
    /\ FilterReturned
    /\ first_view # NoneValue
    /\ TheValue(first_view).max_step < result.max_step
    /\ TheValue(first_view).value.nodes # {}
    /\ TheValue(first_view).value.nodes # result.value.nodes
    /\ DOMAIN TheValue(first_view).value.edges # DOMAIN result.value.edges

\* C8: a later filter_graph_by_step(K) returns a view with the node set, the
\* edge set and the per-edge interaction counts of the first view returned
\* for K, whatever was called in between.
C8_FilterRepeatable ==
    (FilterReturned /\ first_view # NoneValue
        /\ TheValue(first_view).max_step = result.max_step) =>
        LET first == TheValue(first_view).value
        IN  /\ result.value.nodes = first.nodes
            /\ DOMAIN result.value.edges = DOMAIN first.edges
            /\ \A e \in DOMAIN first.edges :
                  Len(result.value.edges[e].interactions)
                      = Len(first.edges[e].interactions)

\* A second call with the first view's K, on a graph that K cuts.
C8_Witness ==
    /\ FilterReturned
    /\ first_view # NoneValue
    /\ TheValue(first_view).repeated
    /\ result.value.nodes # {}
    /\ DOMAIN result.value.edges # DOMAIN Base.edges

\* C9: filter_graph_by_step, to_graph_snapshot and get_graph_metrics leave the
\* built graph (nodes, node attributes, edges, interactions, weights) and the
\* stored message list as they are.
C9_ReadersLeaveBase ==
    [][Built => (graph' = graph /\ messages' = messages)]_vars

\* A view that differs from the base graph has been returned, and the base
\* graph is the one build_graph made.
C9_Witness ==
    /\ FilterReturned
    /\ result.value.nodes # Base.nodes
    /\ DOMAIN result.value.edges # {}
    /\ Base = BuiltGraph(messages)

\* C10: after build_graph(M) the nodes are the senders and the present
\* receivers of M, the edges the (sender, receiver) pairs of the messages of
\* M with a receiver.
C10_NodesAndEdgesOfMessages ==
    BuildReturned =>
        LET M == result.input
        IN  /\ Base.nodes =
                  {M[i].sender : i \in 1..Len(M)}
                  \cup {M[i].receiver : i \in {j \in 1..Len(M) : M[j].receiver # NoReceiver}}
            /\ DOMAIN Base.edges =
                  {<<M[i].sender, M[i].receiver>> :
                      i \in {j \in 1..Len(M) : M[j].receiver # NoReceiver}}
            /\ DOMAIN Base.node_attr = Base.nodes
            /\ \A e \in DOMAIN Base.edges :
                  Base.edges[e].source = e[1] /\ Base.edges[e].target = e[2]

\* A build from a broadcast of one agent and a message to another agent.
C10_Witness ==
    /\ BuildReturned
    /\ \E i \in 1..Len(result.input) : result.input[i].receiver = NoReceiver
    /\ DOMAIN Base.edges # {}
    /\ Cardinality(Base.nodes) = 2

\* The positions of the message list M whose message is sent by n, and
\* those whose message is received by n.
SentBy(M, n) == {i \in 1..Len(M) : M[i].sender = n}
ReceivedBy(M, n) == {i \in 1..Len(M) : M[i].receiver = n}

\* C11: after build_graph(M) the sent-message counter of every node is the
\* number of messages of M it sent, a message to oneself counting once.
C11_SentCounter ==
    BuildReturned =>
        \A n \in Base.nodes :
            Base.node_attr[n].message_count = Cardinality(SentBy(result.input, n))

\* C12: after build_graph(M) the snapshot reports for every node as
\* messages_received the number of messages of M it received.
C12_ReceivedCounter ==
    SnapshotReturned =>
        \A n \in result.value.nodes :
            n.messages_received = Cardinality(ReceivedBy(messages, n.id))

\* The smallest and the largest timestamp of the messages of M at the
\* positions `at`.
MinTimestamp(M, at) ==
    CHOOSE t \in {M[i].timestamp : i \in at} :
        \A i \in at : t <= M[i].timestamp
MaxTimestamp(M, at) ==
    CHOOSE t \in {M[i].timestamp : i \in at} :
        \A i \in at : t >= M[i].timestamp

\* C13: after build_graph(M), a node that sent a message has as
\* first_appearance the smallest and as last_activity the largest timestamp of
\* the messages it sent.
C13_SenderTimestamps ==
    BuildReturned =>
        \A n \in Base.nodes :
            SentBy(result.input, n) # {} =>
                /\ Base.node_attr[n].first_appearance
                      = MinTimestamp(result.input, SentBy(result.input, n))
                /\ Base.node_attr[n].last_activity
                      = MaxTimestamp(result.input, SentBy(result.input, n))

\* C14: every snapshot, filtered or not, reports as total_steps the largest
\* step_index of the messages build_graph took in.
C14_TotalSteps ==
    SnapshotReturned =>
        /\ \A i \in 1..Len(messages) :
              messages[i].step_index <= result.value.total_steps
        /\ \E i \in 1..Len(messages) :
              messages[i].step_index = result.value.total_steps

\* A snapshot for a max_step below the largest step of the messages.
C14_Witness ==
    /\ SnapshotReturned
    /\ result.max_step # NoneValue
    /\ TheValue(result.max_step) < result.value.total_steps
    /\ result.value.total_steps > 0

\* C15: a snapshot taken with a max_step that makes to_graph_snapshot filter
\* reports in its metadata the numbers of nodes, edges and messages of the
\* view: the messages counted are those with step_index <= max_step.
C15_MetadataCountsView ==
    (SnapshotReturned /\ Truthy(result.max_step)) =>
        LET k == TheValue(result.max_step)
        IN  /\ result.value.metadata.node_count = Cardinality(result.value.nodes)
            /\ result.value.metadata.edge_count = Cardinality(result.value.edges)
            /\ result.value.metadata.message_count =
                  Cardinality({i \in 1..Len(messages) : messages[i].step_index <= k})

\* C16: build_graph with the empty list raises its error and leaves the
\* builder's graph and message list as they were, on an unbuilt and on a
\* built builder.
C16_EmptyBuildCommitsNothing ==
    [][(result'.op = "build_graph" /\ result'.input = <<>>) =>
          /\ result'.raised = EmptyListError
          /\ graph' = graph
          /\ messages' = messages]_vars

\* build_graph([]) has raised on a builder that holds a built graph.
C16_Witness ==
    /\ result.op = "build_graph"
    /\ result.raised = EmptyListError
    /\ Built
    /\ Base.nodes # {}
    /\ messages # <<>>

ReaderCalled ==
    result.op \in {"filter_graph_by_step", "to_graph_snapshot", "get_graph_metrics"}

\* C17: filter_graph_by_step, to_graph_snapshot and get_graph_metrics raise
\* the not-built error exactly on a builder no build_graph has succeeded on;
\* on a built one they return, also when it was built from broadcasts only.
C17_NotBuiltErrorIffUnbuilt ==
    ReaderCalled =>
        /\ result.raised \in {NotBuiltError, "no"}
        /\ result.raised = NotBuiltError <=> graph = NoneValue

\* A reader has returned on a graph built from broadcasts only.
C17_Witness ==
    /\ ReaderCalled
    /\ result.raised = "no"
    /\ DOMAIN Base.edges = {}
    /\ \A i \in 1..Len(messages) : messages[i].receiver = NoReceiver

\* C18: folding a broadcast into the graph under construction adds no edge and
\* no interaction, makes no node but the sender's and changes no other node's
\* metadata; the built graph has no node and no edge end that is None.
C18_BroadcastOnlyTouchesSender ==
    BuildReturned =>
        /\ \A i \in 1..Len(messages) :
              messages[i].receiver = NoReceiver =>
                  LET before == FoldMessages(EmptyBuild, SubSeq(messages, 1, i - 1))
                      after == FoldMessage(before, messages[i])
                      sender == messages[i].sender
                  IN  /\ after.edges = before.edges
                      /\ after.nodes = before.nodes \cup {sender}
                      /\ DOMAIN after.node_metadata
                            = DOMAIN before.node_metadata \cup {sender}
                      /\ \A n \in (DOMAIN before.node_metadata) \ {sender} :
                            after.node_metadata[n] = before.node_metadata[n]
                      /\ after.node_metadata[sender].message_count
                            = IF sender \in DOMAIN before.node_metadata
                              THEN before.node_metadata[sender].message_count + 1
                              ELSE 1
        /\ NoReceiver \notin Base.nodes
        /\ \A e \in DOMAIN Base.edges : e[1] # NoReceiver /\ e[2] # NoReceiver

\* A build whose second message is the broadcast of an agent the first
\* message, which has a receiver, does not name.
C18_Witness ==
    /\ BuildReturned
    /\ Len(messages) = 2
    /\ messages[1].receiver # NoReceiver
    /\ messages[2].receiver = NoReceiver
    /\ messages[2].sender \notin {messages[1].sender, messages[1].receiver}
    /\ Cardinality(Base.nodes) = 2
    /\ Cardinality(DOMAIN Base.edges) = 1

MetricsReturned == result.op = "get_graph_metrics" /\ result.raised = "no"

\* C19: the density get_graph_metrics reports lies between 0 and 1, and is 0
\* for a graph of at most one node.
C19_DensityWithinUnit ==
    MetricsReturned =>
        /\ 0 <= result.value.density.num
        /\ result.value.density.num <= result.value.density.den
        /\ (result.value.node_count <= 1 => result.value.density.num = 0)

\* C20: get_graph_metrics reports each of the three centrality fields exactly
\* when the graph has more than one node.
C20_CentralityOnlyAboveOneNode ==
    MetricsReturned =>
        \A field \in {"degree_centrality", "in_degree_centrality",
                      "out_degree_centrality"} :
            field \in DOMAIN result.value <=> result.value.node_count > 1

\* ------------------------------------------------- metrics over a view
\* get_graph_metrics takes no view: it reads self.graph. Metrics over a view
\* are the method run by a builder whose graph is the view that
\* filter_graph_by_step(max_step) returned.
ViewMetricsCall ==
    \E max_step \in StepBounds :
        /\ IF NotBuilt(graph)
           THEN /\ result' = [op |-> "filter_graph_by_step", max_step |-> max_step,
                              raised |-> NotBuiltError]
                /\ UNCHANGED graph
           ELSE LET r == FilterGraphByStep(TheValue(graph), max_step)
                    view == r.filtered
                IN  /\ graph' = Some(r.self_graph)
                    /\ result' =
                         IF NotBuilt(Some(view))
                         THEN [op |-> "get_graph_metrics of view",
                               max_step |-> max_step, view |-> view,
                               raised |-> NotBuiltError]
                         ELSE [op |-> "get_graph_metrics of view",
                               max_step |-> max_step, view |-> view,
                               raised |-> "no", value |-> GetGraphMetrics(view)]
        /\ first_view' = Recorded(first_view, FALSE)
        /\ UNCHANGED messages
        /\ UNCHANGED store

NextViewMetrics ==
    \/ BuildLog
    \/ ViewMetricsCall

SpecViewMetrics == Init /\ [][NextViewMetrics]_vars

\* C21: metrics over a view never raise, and over a view without nodes they
\* are node_count = 0, edge_count = 0, density = 0 and no centrality field.
C21_MetricsTolerateEmptyView ==
    result.op = "get_graph_metrics of view" =>
        /\ result.raised = "no"
        /\ result.view.nodes = {} =>
              /\ result.value.node_count = 0
              /\ result.value.edge_count = 0
              /\ result.value.density.num = 0
              /\ DOMAIN result.value = {"node_count", "edge_count", "density"}

\* ------------------------------------------------- concurrent readers
\* Threads that call the three readers of one GraphBuilder, a step of one
\* thread at a time. A frame is a thread's position in its call and its
\* locals; `ref` tells which graph object its local `filtered` or
\* `graph_to_use` names: 1 is self.graph, 2 an object of the thread's own,
\* whose content is `own`.
Threads == {"t1", "t2"}

ShortLogs == {log \in ParsedLogs : Len(log) <= MaxShortLog}

ReaderCalls ==
    {[op |-> "filter_graph_by_step", max_step |-> Some(k)] : k \in StepBounds}
    \cup {[op |-> "to_graph_snapshot", max_step |-> m] :
             m \in {NoneValue} \cup {Some(k) : k \in StepBounds}}
    \cup {[op |-> "get_graph_metrics", max_step |-> NoneValue]}

Idle == [pc |-> "idle"]

\* The graph object a frame's local names, and the state after the object
\* has become g.
Target(f) == IF f.ref = 1 THEN TheValue(graph) ELSE TheValue(f.own)
Stored(t, f, g) ==
    IF f.ref = 1
    THEN /\ graph' = Some(g)
         /\ threads' = [threads EXCEPT ![t] = f]
    ELSE /\ graph' = graph
         /\ threads' = [threads EXCEPT ![t] = [f EXCEPT !.own = Some(g)]]

\* upload_log_file for a short log, before any request reads the builder.
BuildShortLog ==
    /\ graph = NoneValue
    /\ threads = <<>>
    /\ \E msgs \in ShortLogs : BuildGraph(msgs)
    /\ threads' = [t \in Threads |-> Idle]
    /\ UNCHANGED <<first_view, sessions, now>>

\* A request enters its reader: the `if not self.graph` check of each.
StartCall(t) ==
    /\ graph # NoneValue
    /\ threads[t] = Idle
    /\ \E call \in ReaderCalls :
          threads' = [threads EXCEPT ![t] =
              IF NotBuilt(graph)
              THEN [pc |-> "return", call |-> call, raised |-> NotBuiltError]
              ELSE IF call.op = "get_graph_metrics"
              THEN [pc |-> "metrics", call |-> call]
              ELSE IF call.op = "to_graph_snapshot" /\ ~Truthy(call.max_step)
              THEN [pc |-> "snapshot", call |-> call, ref |-> 1, own |-> NoneValue]
              ELSE [pc |-> "copy", call |-> call]]
    /\ UNCHANGED <<graph, messages, result, first_view, sessions, now>>

\* filtered = self.graph.copy()
CopyStep(t) ==
    /\ threads[t].pc = "copy"
    /\ LET c == GraphCopy(<<TheValue(graph)>>, 1)
       IN  threads' = [threads EXCEPT ![t] =
               [pc |-> "loop", call |-> threads[t].call, ref |-> c.ref,
                own |-> IF c.ref = 1 THEN NoneValue ELSE Some(c.heap[c.ref]),
                todo |-> DOMAIN c.heap[c.ref].edges, edges_to_remove |-> {}]]
    /\ UNCHANGED <<graph, messages, result, first_view, sessions, now>>

\* One iteration of the loop over filtered.edges(data=True).
LoopStep(t) ==
    /\ threads[t].pc = "loop"
    /\ threads[t].todo # {}
    /\ \E e \in threads[t].todo :
          LET f == threads[t]
              g == Target(f)
              max_step == TheValue(f.call.max_step)
              rest == [f EXCEPT !.todo = @ \ {e}]
          IN  IF e \notin DOMAIN g.edges
              THEN Stored(t, rest, g)
              ELSE LET kept == KeptInteractions(g.edges[e].interactions, max_step)
                   IN  IF kept # <<>>
                       THEN Stored(t, rest,
                                [g EXCEPT !.edges[e].interactions = kept,
                                          !.edges[e].weight = Len(kept)])
                       ELSE Stored(t, [rest EXCEPT !.edges_to_remove = @ \cup {e}], g)
    /\ UNCHANGED <<messages, result, first_view, sessions, now>>

\* The loop is over: filtered.remove_edge for each edge of edges_to_remove.
RemoveStep(t) ==
    /\ threads[t].pc = "loop"
    /\ threads[t].todo = {}
    /\ LET f == threads[t]
       IN  Stored(t, [pc |-> "isolates", call |-> f.call, ref |-> f.ref, own |-> f.own],
                  RemoveEdges(Target(f), f.edges_to_remove))
    /\ UNCHANGED <<messages, result, first_view, sessions, now>>

\* isolated_nodes = list(nx.isolates(filtered)); remove_nodes_from; return
\* filtered, to the caller or to to_graph_snapshot.
IsolatesStep(t) ==
    /\ threads[t].pc = "isolates"
    /\ LET f == threads[t]
           g == RemoveNodesFrom(Target(f), Isolates(Target(f)))
       IN  IF f.call.op = "filter_graph_by_step"
           THEN Stored(t, [pc |-> "return", call |-> f.call, raised |-> "no",
                           ref |-> f.ref, own |-> Some(g), value |-> g], g)
           ELSE Stored(t, [f EXCEPT !.pc = "snapshot"], g)
    /\ UNCHANGED <<messages, result, first_view, sessions, now>>

\* to_graph_snapshot from graph_to_use on: the nodes and edges lists, the
\* total steps of self.messages, the GraphSnapshot.
SnapshotStep(t) ==
    /\ threads[t].pc = "snapshot"
    /\ LET f == threads[t]
           s == ToGraphSnapshot(Target(f), messages, NoneValue).snapshot
       IN  threads' = [threads EXCEPT ![t] =
               [pc |-> "return", call |-> f.call, raised |-> "no",
                value |-> [s EXCEPT !.current_step = f.call.max_step]]]
    /\ UNCHANGED <<graph, messages, result, first_view, sessions, now>>

\* get_graph_metrics past its check.
MetricsStep(t) ==
    /\ threads[t].pc = "metrics"
    /\ threads' = [threads EXCEPT ![t] =
           [pc |-> "return", call |-> threads[t].call, raised |-> "no",
            value |-> GetGraphMetrics(TheValue(graph))]]
    /\ UNCHANGED <<graph, messages, result, first_view, sessions, now>>

\* The call returns; the thread may call again.
ReturnStep(t) ==
    /\ threads[t].pc = "return"
    /\ threads' = [threads EXCEPT ![t] = Idle]
    /\ UNCHANGED <<graph, messages, result, first_view, sessions, now>>

NextReaders ==
    \/ BuildShortLog
    \/ \E t \in DOMAIN threads : StartCall(t)
    \/ \E t \in DOMAIN threads : CopyStep(t)
    \/ \E t \in DOMAIN threads : LoopStep(t)
    \/ \E t \in DOMAIN threads : RemoveStep(t)
    \/ \E t \in DOMAIN threads : IsolatesStep(t)
    \/ \E t \in DOMAIN threads : SnapshotStep(t)
    \/ \E t \in DOMAIN threads : MetricsStep(t)
    \/ \E t \in DOMAIN threads : ReturnStep(t)

SpecReaders == Init /\ [][NextReaders]_vars

\* What a reader call returns when it runs alone on the graph built from
\* the messages.
Alone(call) ==
    LET base == BuiltGraph(messages)
    IN  CASE call.op = "filter_graph_by_step" ->
                 FilterGraphByStep(base, TheValue(call.max_step)).filtered
          [] call.op = "to_graph_snapshot" ->
                 ToGraphSnapshot(base, messages, call.max_step).snapshot
          [] call.op = "get_graph_metrics" -> GetGraphMetrics(base)

\* C22: with reader calls of several threads interleaved step by step, the
\* base graph stays the graph that was built, no call raises, and every call
\* returns what it returns when run alone.
C22_ConcurrentReadersAsAlone ==
    graph # NoneValue =>
        /\ graph = Some(BuiltGraph(messages))
        /\ \A t \in DOMAIN threads :
              threads[t].pc = "return" =>
                  /\ threads[t].raised = "no"
                  /\ threads[t].value = Alone(threads[t].call)

\* Two calls with different arguments are under way at once: one has taken
\* edges off its copy and is about to drop the isolated nodes, the other is
\* part of the way through its edge loop.
C22_Witness ==
    /\ graph # NoneValue
    /\ \E t \in DOMAIN threads, u \in DOMAIN threads :
          /\ threads[t].pc = "isolates"
          /\ DOMAIN Target(threads[t]).edges # DOMAIN TheValue(graph).edges
          /\ threads[u].pc = "loop"
          /\ threads[u].todo # {}
          /\ threads[u].todo # DOMAIN TheValue(graph).edges
          /\ threads[u].call # threads[t].call

\* ------------------------------------------------- session store
\* uuid.uuid4() cut to its first 8 characters: a random identifier, drawn
\* without a look at the identifiers in use.
Ids == {"s1", "s2"}

\* The session dictionary create_session stores. framework, created_at and
\* metadata are written here and read by no other method of the manager
\* but list_sessions.
CreateSession(S, session_id, msgs, graph_builder, t) ==
    (session_id :> [id |-> session_id, messages |-> msgs,
                    graph_builder |-> graph_builder, last_accessed |-> t]) @@ S

\* SessionManager.get_session at time t: the store afterwards and the value
\* returned.
GetSession(S, session_id, t) ==
    IF session_id \notin DOMAIN S
    THEN [sessions |-> S, value |-> NoneValue]
    ELSE LET touched == [S EXCEPT ![session_id].last_accessed = t]
         IN  [sessions |-> touched, value |-> Some(touched[session_id])]

\* SessionManager.get_graph_builder
GetGraphBuilder(S, session_id, t) ==
    LET r == GetSession(S, session_id, t)
    IN  [sessions |-> r.sessions,
         value |-> IF r.value # NoneValue
                   THEN Some(TheValue(r.value).graph_builder) ELSE NoneValue]

\* SessionManager.delete_session
DeleteSession(S, session_id) ==
    IF session_id \in DOMAIN S
    THEN [sessions |-> [x \in (DOMAIN S) \ {session_id} |-> S[x]], value |-> TRUE]
    ELSE [sessions |-> S, value |-> FALSE]

\* settings.SESSION_EXPIRY_HOURS
SESSION_EXPIRY_HOURS == 24

\* Mutant: a session last read exactly SESSION_EXPIRY_HOURS ago counts as
\* expired too.
ExpiredAtBoundary(session, expiry_time) == session.last_accessed <= expiry_time

\* session['last_accessed'] < expiry_time
Expired(session, expiry_time) == session.last_accessed < expiry_time

\* SessionManager.cleanup_expired_sessions at time t
CleanupExpiredSessions(S, t) ==
    LET expiry_time == t - SESSION_EXPIRY_HOURS
        expired_sessions == {sid \in DOMAIN S : Expired(S[sid], expiry_time)}
    IN  [sessions |-> [sid \in (DOMAIN S) \ expired_sessions |-> S[sid]],
         value |-> Cardinality(expired_sessions)]

\* GraphBuilder(): no graph, no messages.
NewBuilder == [graph |-> NoneValue, messages |-> <<>>]

\* self.graph while and after build_graph runs on it: during the loop the
\* nodes have no attributes, the last lines attach node_metadata to them.
UnattachedGraph(b) ==
    [nodes |-> b.nodes, node_attr |-> [n \in b.nodes |-> <<>>], edges |-> b.edges]
AttachedGraph(b) ==
    [nodes |-> b.nodes, node_attr |-> [n \in b.nodes |-> b.node_metadata[n]],
     edges |-> b.edges]
Attached(g) == \A n \in g.nodes : DOMAIN g.node_attr[n] # {}

\* ------------------------------------------------- requests
\* The requests of the API next to each other. An upload is followed step by
\* step, its locals in the frame of its thread; get_graph, get_graph_metrics
\* and delete_session read a builder no one writes any more, or the store in
\* one dictionary operation, and are taken as one step each. A response is
\* its endpoint and its status code.
TinyLogs == {log \in ParsedLogs : Len(log) <= MaxTinyLog}

\* Mutant: the session is created right after GraphBuilder(), the graph is
\* built afterwards.
UploadThenRegisterFirst(pc) ==
    CASE pc = "construct" -> "create_session"
      [] pc = "create_session" -> "build"
      [] pc = "built" -> "respond"

\* The order of upload_log_file after parsing: GraphBuilder(), build_graph,
\* create_session, the response.
UploadThen(pc) ==
    CASE pc = "construct" -> "build"
      [] pc = "built" -> "create_session"
      [] pc = "create_session" -> "respond"

\* Uploads share nothing before create_session, one dictionary assignment:
\* one upload at a time is followed through its steps, next to the sessions
\* that earlier uploads left and to the other requests.
Workers == {"u1"}

Finished(t) == [x \in (DOMAIN threads) \ {t} |-> threads[x]]

\* ParserService.parse_log raises: 400, nothing else happens.
UploadRejected ==
    /\ result' = [op |-> "upload_log_file", status |-> 400]
    /\ UNCHANGED <<graph, messages, first_view, sessions, now, threads>>

\* An upload whose file parses, up to graph_builder = GraphBuilder().
StartUpload(t) ==
    /\ t \notin DOMAIN threads
    /\ Cardinality(DOMAIN sessions) + Cardinality(DOMAIN threads) < MaxBuilders
    /\ \E log \in TinyLogs :
          threads' = (t :> [pc |-> UploadThen("construct"), messages |-> log,
                            graph_builder |-> NewBuilder]) @@ threads
    /\ UNCHANGED <<graph, messages, result, first_view, sessions, now>>

\* build_graph up to its loop: the empty check, self.messages, self.graph.
BuildStart(t) ==
    /\ threads[t].pc = "build"
    /\ LET f == threads[t]
       IN  IF f.messages = <<>>
           THEN /\ threads' = Finished(t)
                /\ result' = [op |-> "upload_log_file", status |-> 500]
           ELSE /\ threads' = [threads EXCEPT ![t] =
                       [pc |-> "loop", messages |-> f.messages,
                        graph_builder |->
                            [graph |-> Some(UnattachedGraph(EmptyBuild)),
                             messages |-> SortedByStepIndex(f.messages)],
                        b |-> EmptyBuild, i |-> 1] @@ f]
                /\ result' = result
    /\ UNCHANGED <<graph, messages, first_view, sessions, now>>

\* One iteration of `for message in self.messages`.
BuildLoop(t) ==
    /\ threads[t].pc = "loop"
    /\ threads[t].i <= Len(threads[t].graph_builder.messages)
    /\ LET f == threads[t]
           b == FoldMessage(f.b, f.graph_builder.messages[f.i])
       IN  threads' = [threads EXCEPT ![t] =
               [f EXCEPT !.b = b, !.i = @ + 1,
                         !.graph_builder.graph = Some(UnattachedGraph(b))]]
    /\ UNCHANGED <<graph, messages, result, first_view, sessions, now>>

\* The loop is over: node_metadata is attached, build_graph returns.
BuildFinish(t) ==
    /\ threads[t].pc = "loop"
    /\ threads[t].i > Len(threads[t].graph_builder.messages)
    /\ LET f == threads[t]
       IN  threads' = [threads EXCEPT ![t] =
               [f EXCEPT !.pc = UploadThen("built"),
                         !.graph_builder.graph = Some(AttachedGraph(f.b))]]
    /\ UNCHANGED <<graph, messages, result, first_view, sessions, now>>

\* session_manager.create_session(messages, framework, graph_builder)
CreateSessionStep(t) ==
    /\ threads[t].pc = "create_session"
    /\ \E session_id \in Ids :
          sessions' = CreateSession(sessions, session_id, threads[t].messages,
                                    threads[t].graph_builder, now)
    /\ threads' = [threads EXCEPT ![t].pc = UploadThen("create_session")]
    /\ UNCHANGED <<graph, messages, result, first_view, now>>

\* graph_builder.to_graph_snapshot() and the UploadResponse.
Respond(t) ==
    /\ threads[t].pc = "respond"
    /\ threads' = Finished(t)
    /\ result' = [op |-> "upload_log_file",
                  status |-> IF NotBuilt(threads[t].graph_builder.graph)
                             THEN 500 ELSE 200]
    /\ UNCHANGED <<graph, messages, first_view, sessions, now>>

\* The status of a reader endpoint for what get_graph_builder returned: 404
\* for None, `failed` when the builder's method raises.
ReaderStatus(graph_builder, failed) ==
    IF graph_builder = NoneValue THEN 404
    ELSE IF NotBuilt(TheValue(graph_builder).graph) THEN failed
    ELSE 200

\* GET /graph/{graph_id}?step=: a ValueError of to_graph_snapshot is a 400,
\* a NodeData that cannot be made a 500.
GetGraphRequest ==
    /\ \E graph_id \in Ids, step \in {NoneValue} \cup {Some(k) : k \in Steps} :
          LET r == GetGraphBuilder(sessions, graph_id, now)
          IN  /\ sessions' = r.sessions
              /\ result' =
                   [op |-> "get_graph",
                    status |-> IF ReaderStatus(r.value, 400) = 200
                                  /\ ~Attached(TheValue(TheValue(r.value).graph))
                               THEN 500 ELSE ReaderStatus(r.value, 400)]
    /\ UNCHANGED <<graph, messages, first_view, now, threads>>

\* GET /graph/{graph_id}/metrics: any exception is a 500.
GetGraphMetricsRequest ==
    /\ \E graph_id \in Ids :
          LET r == GetGraphBuilder(sessions, graph_id, now)
          IN  /\ sessions' = r.sessions
              /\ result' = [op |-> "get_graph_metrics",
                            status |-> ReaderStatus(r.value, 500)]
    /\ UNCHANGED <<graph, messages, first_view, now, threads>>

\* DELETE /session/{session_id}
DeleteSessionRequest ==
    /\ \E session_id \in Ids :
          LET r == DeleteSession(sessions, session_id)
          IN  /\ sessions' = r.sessions
              /\ result' = [op |-> "delete_session",
                            status |-> IF r.value THEN 200 ELSE 404]
    /\ UNCHANGED <<graph, messages, first_view, now, threads>>

NextRequests ==
    \/ UploadRejected
    \/ \E t \in Workers : StartUpload(t)
    \/ \E t \in DOMAIN threads : BuildStart(t)
    \/ \E t \in DOMAIN threads : BuildLoop(t)
    \/ \E t \in DOMAIN threads : BuildFinish(t)
    \/ \E t \in DOMAIN threads : CreateSessionStep(t)
    \/ \E t \in DOMAIN threads : Respond(t)
    \/ GetGraphRequest
    \/ GetGraphMetricsRequest
    \/ DeleteSessionRequest

SpecRequests == Init /\ [][NextRequests]_vars

\* C23: a builder in the session store has been built to the end, from a
\* list that is not empty, and no get_graph or get_graph_metrics request
\* fails on a builder it found.
C23_StoredBuildersAreBuilt ==
    /\ \A session_id \in DOMAIN sessions :
          LET graph_builder == sessions[session_id].graph_builder
          IN  /\ graph_builder.messages # <<>>
              /\ graph_builder.graph = Some(BuiltGraph(graph_builder.messages))
    /\ result.op \in {"get_graph", "get_graph_metrics"} =>
          result.status \in {200, 404}

\* A reader request was served from the store after an upload registered
\* the builder it had built message by message.
C23_Witness ==
    /\ DOMAIN sessions # {}
    /\ DOMAIN threads = {}
    /\ result.op = "get_graph"
    /\ result.status = 200

\* ------------------------------------------------- parser
\* A line of a JSONL log: empty once stripped, or one JSON entry. The
\* entries of a JSON array are the same without the empty lines. An entry has
\* a sender, a recipient ("all" and a missing one included) and a content,
\* empty or not.
LogEntry == [sender : Agents, recipient : Agents \cup {"all", NoReceiver},
             content : {"", "text"}]
LogLines == {<<>>} \cup {<<entry>> : entry \in LogEntry}
LogFiles == UNION {[1..n -> LogLines] : n \in 0..MaxFileLines}

NoMessagesError == "ParserError: No valid messages found in log file"

\* AutoGenParser._parse_entry for an entry without a timestamp field, past
\* the test that skips an entry without content.
ParseEntry(entry, step_index) ==
    [step_index |-> step_index, timestamp |-> InferredTimestamp(step_index),
     sender |-> entry.sender,
     receiver |-> IF entry.recipient = "all" THEN NoReceiver ELSE entry.recipient]

\* The loop of AutoGenParser.parse over enumerate(f) / enumerate(data), at
\* the line of index idx.
RECURSIVE ParseLines(_, _)
ParseLines(lines, idx) ==
    IF lines = <<>> THEN <<>>
    ELSE LET line == Head(lines)
             rest == ParseLines(Tail(lines), idx + 1)
         IN  IF line = <<>> THEN rest
             ELSE IF line[1].content = "" THEN rest
             ELSE <<ParseEntry(line[1], idx)>> \o rest

\* AutoGenParser.parse(file_path)
ParseCall ==
    /\ \E file \in LogFiles :
          LET parsed == ParseLines(file, 0)
          IN  result' = IF parsed = <<>>
                        THEN [op |-> "parse", input |-> file,
                              raised |-> NoMessagesError]
                        ELSE [op |-> "parse", input |-> file, raised |-> "no",
                              value |-> parsed]
    /\ UNCHANGED <<graph, messages, first_view, sessions, now, threads>>

NextParser == ParseCall

SpecParser == Init /\ [][NextParser]_vars

\* C24: the i-th message parse returns has step_index i, counted from 0.
C24_StepIndexIsPosition ==
    (result.op = "parse" /\ result.raised = "no") =>
        \A i \in 1..Len(result.value) : result.value[i].step_index = i - 1

\* ------------------------------------------------- session manager calls
\* The builder upload_log_file hands to create_session: built from the log.
BuiltBuilder(log) ==
    [graph |-> Some(BuiltGraph(SortedByStepIndex(log))),
     messages |-> SortedByStepIndex(log)]

CreateSessionCall ==
    /\ \E log \in TinyLogs, session_id \in Ids :
          /\ sessions' = CreateSession(sessions, session_id, log,
                                       BuiltBuilder(log), now)
          /\ result' = [op |-> "create_session", value |-> session_id]
    /\ UNCHANGED <<graph, messages, first_view, now, threads>>

GetSessionCall ==
    /\ \E session_id \in Ids :
          LET r == GetSession(sessions, session_id, now)
          IN  /\ sessions' = r.sessions
              /\ result' = [op |-> "get_session", session_id |-> session_id,
                            value |-> r.value]
    /\ UNCHANGED <<graph, messages, first_view, now, threads>>

GetGraphBuilderCall ==
    /\ \E session_id \in Ids :
          LET r == GetGraphBuilder(sessions, session_id, now)
          IN  /\ sessions' = r.sessions
              /\ result' = [op |-> "get_graph_builder", session_id |-> session_id,
                            value |-> r.value]
    /\ UNCHANGED <<graph, messages, first_view, now, threads>>

DeleteSessionCall ==
    /\ \E session_id \in Ids :
          LET r == DeleteSession(sessions, session_id)
          IN  /\ sessions' = r.sessions
              /\ result' = [op |-> "delete_session", session_id |-> session_id,
                            value |-> r.value]
    /\ UNCHANGED <<graph, messages, first_view, now, threads>>

\* SessionManager.get_session_count
GetSessionCountCall ==
    /\ result' = [op |-> "get_session_count",
                  value |-> Cardinality(DOMAIN sessions)]
    /\ UNCHANGED <<graph, messages, first_view, sessions, now, threads>>

NextSessions ==
    \/ CreateSessionCall
    \/ GetSessionCall
    \/ GetGraphBuilderCall
    \/ DeleteSessionCall
    \/ GetSessionCountCall

SpecSessions == Init /\ [][NextSessions]_vars

\* C25: a session that a step does not remove keeps its builder, and
\* get_graph_builder returns the builder of the session; delete_session
\* returns True exactly when the identifier was present, the identifier is
\* absent afterwards (get_session then returns None), and a delete_session
\* that returns False leaves the store as it was.
C25_SessionLifecycle ==
    [][/\ \A session_id \in (DOMAIN sessions) \cap (DOMAIN sessions') :
             sessions'[session_id].graph_builder = sessions[session_id].graph_builder
       /\ result'.op = "get_graph_builder" =>
             result'.value = IF result'.session_id \in DOMAIN sessions
                             THEN Some(sessions[result'.session_id].graph_builder)
                             ELSE NoneValue
       /\ result'.op = "delete_session" =>
             /\ result'.value = (result'.session_id \in DOMAIN sessions)
             /\ result'.session_id \notin DOMAIN sessions'
             /\ GetSession(sessions', result'.session_id, now).value = NoneValue
             /\ ~result'.value => sessions' = sessions]_vars

\* ------------------------------------------------- build from any list
\* build_graph of a new builder on a list in any order, the timestamps free
\* of the steps.
BuildAnyOrder ==
    /\ graph = NoneValue
    /\ \E msgs \in MessageLists : BuildGraph(msgs)
    /\ first_view' = Recorded(first_view, FALSE)
    /\ UNCHANGED store

NextBuildAnyOrder == BuildAnyOrder

SpecBuildAnyOrder == Init /\ [][NextBuildAnyOrder]_vars

\* The messages of `input` from u to v: those of step k in the order of
\* `input`, then those of the later steps.
RECURSIVE FromStep(_, _, _, _)
FromStep(input, u, v, k) ==
    IF k > MaxStep THEN <<>>
    ELSE LET AtStep(m) == m.step_index = k /\ m.sender = u /\ m.receiver = v
         IN  SelectSeq(input, AtStep) \o FromStep(input, u, v, k + 1)

RECURSIVE WeightOf(_, _)
WeightOf(g, es) ==
    IF es = {} THEN 0
    ELSE LET e == CHOOSE x \in es : TRUE
         IN  g.edges[e].weight + WeightOf(g, es \ {e})

\* C26: after build_graph on a list in any order, edge (u, v) exists exactly
\* when a message goes from u to v, and its interactions are, one to one and
\* in order, those messages by step_index with ties in the order of the
\* list, each with its message's step_index and timestamp; the sequence never
\* goes down in step_index, and the weights add up to the number of messages
\* that have a receiver.
C26_InteractionsInStableStepOrder ==
    BuildReturned =>
        /\ \A u \in Agents, v \in Agents :
              LET expected == FromStep(result.input, u, v, 0)
              IN  IF expected = <<>> THEN <<u, v>> \notin DOMAIN Base.edges
                  ELSE /\ <<u, v>> \in DOMAIN Base.edges
                       /\ LET interactions == Base.edges[<<u, v>>].interactions
                          IN  /\ Len(interactions) = Len(expected)
                              /\ \A i \in 1..Len(expected) :
                                    /\ interactions[i].step_index = expected[i].step_index
                                    /\ interactions[i].timestamp = expected[i].timestamp
                              /\ \A i \in 1..(Len(interactions) - 1) :
                                    interactions[i].step_index
                                        <= interactions[i + 1].step_index
        /\ WeightOf(Base, DOMAIN Base.edges)
              = Cardinality({i \in 1..Len(result.input) :
                                result.input[i].receiver # NoReceiver})

\* A build from two messages of one step on one edge, the later timestamp
\* first in the list: the tie keeps the order of the list.
C26_Witness ==
    /\ BuildReturned
    /\ Len(result.input) = 2
    /\ result.input[1].step_index = result.input[2].step_index
    /\ result.input[1].sender = result.input[2].sender
    /\ result.input[1].receiver = result.input[2].receiver
    /\ result.input[1].receiver # NoReceiver
    /\ result.input[1].timestamp > result.input[2].timestamp
    /\ Len(Base.edges[<<result.input[1].sender, result.input[1].receiver>>].interactions) = 2

\* ------------------------------------------------- building again
\* build_graph called time after time on one builder, followed line by
\* line: `threads` is the frame of the call in progress, with its local
\* node_metadata (in b) and its place in the loop. The result of a call is
\* "not yet" raised or returned while it runs; `before` remembers what
\* self.graph was when the call began.

\* Mutant: the graph and the node metadata of the build before are kept and
\* the new messages are added to them.
ResetBuildKeeps(g) ==
    IF g = NoneValue THEN [nodes |-> {}, edges |-> <<>>, node_metadata |-> <<>>]
    ELSE [nodes |-> TheValue(g).nodes, edges |-> TheValue(g).edges,
          node_metadata |-> TheValue(g).node_attr]

\* self.graph = nx.DiGraph() and node_metadata = {}, whatever self.graph g
\* was.
ResetBuild(g) == EmptyBuild

RebuildStart ==
    /\ threads = <<>>
    /\ \E msgs \in TinyLogs \cup {<<>>} :
          IF msgs = <<>>
          THEN /\ result' = [op |-> "build_graph", raised |-> EmptyListError,
                             input |-> msgs]
               /\ UNCHANGED <<graph, messages, threads>>
          ELSE /\ messages' = SortedByStepIndex(msgs)
               /\ graph' = Some(UnattachedGraph(ResetBuild(graph)))
               /\ threads' = [pc |-> "loop", b |-> ResetBuild(graph), i |-> 1]
               /\ result' = [op |-> "build_graph", raised |-> "not yet",
                             input |-> msgs, before |-> graph]
    /\ UNCHANGED <<first_view, sessions, now>>

RebuildLoop ==
    /\ threads # <<>>
    /\ threads.i <= Len(messages)
    /\ LET b == FoldMessage(threads.b, messages[threads.i])
       IN  /\ threads' = [threads EXCEPT !.b = b, !.i = @ + 1]
           /\ graph' = Some(UnattachedGraph(b))
    /\ UNCHANGED <<messages, result, first_view, sessions, now>>

RebuildFinish ==
    /\ threads # <<>>
    /\ threads.i > Len(messages)
    /\ graph' = Some(AttachedGraph(threads.b))
    /\ result' = [result EXCEPT !.raised = "no"]
    /\ threads' = <<>>
    /\ UNCHANGED <<messages, first_view, sessions, now>>

NextRebuild ==
    \/ RebuildStart
    \/ RebuildLoop
    \/ RebuildFinish

SpecRebuild == Init /\ [][NextRebuild]_vars

\* What build_graph(input) leaves in a new builder.
FreshGraph(input) ==
    IF input = <<>> THEN NoneValue ELSE Some(BuiltGraph(SortedByStepIndex(input)))
FreshMessages(input) ==
    IF input = <<>> THEN <<>> ELSE SortedByStepIndex(input)

\* C27 as claimed: after any build_graph call, the first or a later one,
\* the builder holds what the call leaves in a new builder.
C27_RebuildAsFresh ==
    (result.op = "build_graph" /\ threads = <<>>) =>
        /\ graph = FreshGraph(result.input)
        /\ messages = FreshMessages(result.input)

\* C27 amended: after a build_graph call on a list that is not empty, the
\* first or a later one, the builder holds what the call leaves in a new
\* builder: graph (nodes, counters, timestamps, edges, interactions,
\* weights) and messages, hence total_steps.
C27_RebuildAsFreshNonEmpty ==
    (result.op = "build_graph" /\ threads = <<>> /\ result.input # <<>>) =>
        /\ graph = FreshGraph(result.input)
        /\ messages = FreshMessages(result.input)
        /\ ToGraphSnapshot(TheValue(graph), messages, NoneValue).snapshot
              = ToGraphSnapshot(BuiltGraph(SortedByStepIndex(result.input)),
                                SortedByStepIndex(result.input), NoneValue).snapshot

\* A later build has returned whose messages do not name an agent that the
\* build before it had made a node of: the graph has lost that node.
C27_Witness ==
    /\ result.op = "build_graph"
    /\ result.raised = "no"
    /\ threads = <<>>
    /\ result.before # NoneValue
    /\ ~(TheValue(result.before).nodes \subseteq TheValue(graph).nodes)
    /\ DOMAIN TheValue(result.before).edges # {}
    /\ DOMAIN TheValue(graph).edges # {}

\* ------------------------------------------------- expiry
\* The session manager over time, the clock in hours. What a session holds
\* plays no part in its expiry: every session is made for one log.
SampleLog == CHOOSE log \in TinyLogs : TRUE

CreateSampleSessionCall ==
    /\ \E session_id \in Ids :
          /\ sessions' = CreateSession(sessions, session_id, SampleLog,
                                       BuiltBuilder(SampleLog), now)
          /\ result' = [op |-> "create_session", value |-> session_id]
    /\ UNCHANGED <<graph, messages, first_view, now, threads>>

CleanupCall ==
    /\ LET r == CleanupExpiredSessions(sessions, now)
       IN  /\ sessions' = r.sessions
           /\ result' = [op |-> "cleanup_expired_sessions", value |-> r.value]
    /\ UNCHANGED <<graph, messages, first_view, now, threads>>

\* An hour passes.
Tick ==
    /\ now < MaxNow
    /\ now' = now + 1
    /\ UNCHANGED <<graph, messages, result, first_view, sessions, threads>>

NextExpiry ==
    \/ CreateSampleSessionCall
    \/ GetSessionCall
    \/ CleanupCall
    \/ Tick

SpecExpiry == Init /\ [][NextExpiry]_vars

\* C28: get_session leaves the session it returns with last_accessed at the
\* current time; cleanup_expired_sessions removes exactly the sessions whose
\* last_accessed is more than SESSION_EXPIRY_HOURS before the current time,
\* so none that was read within that window, returns how many it removed
\* and leaves the other sessions as they were.
C28_CleanupRemovesExpiredOnly ==
    [][/\ (now' = now /\ result'.op = "get_session" /\ result'.value # NoneValue) =>
             sessions'[result'.session_id].last_accessed = now
       /\ (now' = now /\ result'.op = "cleanup_expired_sessions") =>
             /\ (DOMAIN sessions) \ (DOMAIN sessions')
                   = {sid \in DOMAIN sessions :
                         now - sessions[sid].last_accessed > SESSION_EXPIRY_HOURS}
             /\ DOMAIN sessions' \subseteq DOMAIN sessions
             /\ result'.value
                   = Cardinality((DOMAIN sessions) \ (DOMAIN sessions'))
             /\ \A sid \in DOMAIN sessions' : sessions'[sid] = sessions[sid]]_vars

\* A cleanup has removed one session and kept the other, which had been read
\* exactly SESSION_EXPIRY_HOURS before.
C28_Witness ==
    /\ result.op = "cleanup_expired_sessions"
    /\ result.value = 1
    /\ \E sid \in DOMAIN sessions :
          now - sessions[sid].last_accessed = SESSION_EXPIRY_HOURS

\* C29: create_session never overwrites a live session: the identifier it
\* returns is not the identifier of a stored session, the store grows by
\* one, and every earlier identifier still resolves to its own builder.
C29_CreateNeverOverwrites ==
    [][result'.op = "create_session" =>
          /\ result'.value \notin DOMAIN sessions
          /\ Cardinality(DOMAIN sessions') = Cardinality(DOMAIN sessions) + 1
          /\ \A sid \in DOMAIN sessions :
                /\ sid \in DOMAIN sessions'
                /\ sessions'[sid].graph_builder = sessions[sid].graph_builder]_vars

\* ------------------------------------------------- inferred timestamps
\* AutoGenParser._extract_timestamp for an entry without a usable timestamp
\* field: datetime(2024, 1, 1).replace(microsecond=step_index * 1000).
\* datetime.replace raises ValueError unless 0 <= microsecond <= 999999. The
\* value is the microseconds after the base time.
ExtractTimestamp(step_index) ==
    LET microsecond == step_index * 1000
    IN  IF microsecond >= 0 /\ microsecond <= 999999
        THEN [raised |-> "no", value |-> Some(microsecond)]
        ELSE [raised |-> "ValueError", value |-> NoneValue]

ExtractTimestampCall ==
    /\ \E step_index \in 0..MaxInferStep :
          LET r == ExtractTimestamp(step_index)
          IN  result' = [op |-> "_extract_timestamp", step_index |-> step_index,
                         raised |-> r.raised, value |-> r.value]
    /\ UNCHANGED <<graph, messages, first_view, store>>

NextTimestamp == ExtractTimestampCall

SpecTimestamp == Init /\ [][NextTimestamp]_vars

\* C30: for an entry without a usable timestamp and every step_index >= 0,
\* _extract_timestamp returns an inferred timestamp without error, later
\* than the one inferred for every smaller step_index.
C30_InferredTimestampsIncrease ==
    result.op = "_extract_timestamp" =>
       /\ result.raised = "no"
       /\ \A earlier \in 0..(result.step_index - 1) :
             /\ ExtractTimestamp(earlier).raised = "no"
             /\ TheValue(ExtractTimestamp(earlier).value) < TheValue(result.value)
====
